---- MODULE Spec2Model ----
(***************************************************************************)
(* Model of the batch speech-to-text scripts stt_clova.py, stt_google.py,  *)
(* stt_vosk.py and stt_whisper.py: clip selection (parse_clip_id,          *)
(* select_targets), transcript extraction (extract_transcript) and the     *)
(* per-script main loop.                                                   *)
(*                                                                         *)
(* File names and text are sequences of one-character strings, so that     *)
(* Path.stem, str.split, str.strip and int() are computed as Python        *)
(* computes them.                                                          *)
(***************************************************************************)
EXTENDS Integers, Sequences, FiniteSets, TLC

VARIABLES
    listing,    \* the order in which VOICE_DIR.glob enumerates the directory
    start_id,   \* select_targets argument
    limit,      \* select_targets argument
    targets,    \* the list select_targets returned
    selPc,      \* "call" before select_targets ran, "returned" after
    response,   \* the requests.Response handed to extract_transcript
    extracted,  \* what extract_transcript returned or raised
    exPc,       \* "call" before extract_transcript ran, "done" after
    backend,    \* which script runs: "clova", "google", "vosk" or "whisper"
    env,        \* what the script finds on disk: voice directory, config, model
    pc,         \* position in main: "main", "preflight", "select", "loop", "clip", "done"
    idx,        \* index of the current clip in targets (the for loop of main)
    step,       \* position in the per-clip function, an index into its steps
    outcome,    \* "running", "completed", "SystemExit" or "exception"
    cause,      \* what ended the run, "none" while it runs or when it completed
    attempted,  \* the clips whose per-clip function was entered, in order
    written,    \* the <stem>.txt files written, in order: clip, text, writer
    transcript, \* the transcript variable of the per-clip function
    tmp,        \* the TemporaryDirectory of the current clip: "none", "open", "released"
    held,       \* the audio the per-clip function holds: "nothing", "wav_path", "bytes"
    staleRead,  \* whether the temporary WAV was read after its directory was removed
    inFlight,   \* whether a backend call has been issued and has not ended
    stalled,    \* whether the backend of the call in flight never responds
    calls,      \* number of backend calls issued
    ffmpegRuns  \* number of ffmpeg invocations

selVars == <<listing, start_id, limit, targets, selPc>>
exVars == <<response, extracted, exPc>>
runVars == <<backend, env, pc, idx, step, outcome, cause, attempted, written,
             transcript, tmp, held, staleRead, inFlight, stalled, calls,
             ffmpegRuns>>
vars == <<selVars, exVars, runVars>>

----------------------------------------------------------------------------
(* Bounds of the model *)

MaxFiles == 3
MaxLimit == 3
MaxSegments == 2

----------------------------------------------------------------------------
(* Program constants *)

START_ID == 17388
TARGET_COUNT == 20
HTTP_TIMEOUT == 300
OPERATION_TIMEOUT == 900

----------------------------------------------------------------------------
(* Python string helpers *)

Digits == {"0", "1", "2", "3", "4", "5", "6", "7", "8", "9"}

DigitVal(c) ==
    CASE c = "0" -> 0 [] c = "1" -> 1 [] c = "2" -> 2 [] c = "3" -> 3
      [] c = "4" -> 4 [] c = "5" -> 5 [] c = "6" -> 6 [] c = "7" -> 7
      [] c = "8" -> 8 [] c = "9" -> 9

Whitespace == {" ", "\n", "\t"}

\* str.strip(): drop leading and trailing whitespace
RECURSIVE LStrip(_)
LStrip(s) ==
    IF s # <<>> /\ Head(s) \in Whitespace THEN LStrip(Tail(s)) ELSE s

RECURSIVE RStrip(_)
RStrip(s) ==
    IF s # <<>> /\ s[Len(s)] \in Whitespace
    THEN RStrip(SubSeq(s, 1, Len(s) - 1)) ELSE s

Strip(s) == RStrip(LStrip(s))

\* index of the first occurrence of c in s, 0 when absent (str.find + 1)
FirstIndex(s, c) ==
    IF \E i \in 1..Len(s) : s[i] = c
    THEN CHOOSE i \in 1..Len(s) : s[i] = c /\ \A j \in 1..(i - 1) : s[j] # c
    ELSE 0

\* index of the last occurrence of c in s, 0 when absent (str.rfind + 1)
LastIndex(s, c) ==
    IF \E i \in 1..Len(s) : s[i] = c
    THEN CHOOSE i \in 1..Len(s) : s[i] = c /\ \A j \in (i + 1)..Len(s) : s[j] # c
    ELSE 0

\* pathlib: PurePath.stem, the name without its last suffix; a name whose
\* only dot is the first or the last character has no suffix
Stem(name) ==
    LET i == LastIndex(name, ".")
    IN  IF 1 < i /\ i < Len(name) THEN SubSeq(name, 1, i - 1) ELSE name

\* str.split("_"): a split at every underscore (here: at the first two)
SplitOnceMutant(s) ==
    LET i == FirstIndex(s, "_")
        rest == SubSeq(s, i + 1, Len(s))
        j == FirstIndex(rest, "_")
    IN  IF i = 0 THEN <<s>>
        ELSE IF j = 0 THEN <<SubSeq(s, 1, i - 1), rest>>
        ELSE <<SubSeq(s, 1, i - 1), SubSeq(rest, 1, j - 1),
               SubSeq(rest, j + 1, Len(rest))>>

\* str.split("_", 1): at most one split, at the first underscore
SplitOnce(s) ==
    LET i == FirstIndex(s, "_")
    IN  IF i = 0 THEN <<s>>
        ELSE <<SubSeq(s, 1, i - 1), SubSeq(s, i + 1, Len(s))>>

\* value of a digit string with underscores skipped, most significant first
RECURSIVE DigitsValue(_, _)
DigitsValue(s, acc) ==
    IF s = <<>> THEN acc
    ELSE IF Head(s) = "_" THEN DigitsValue(Tail(s), acc)
    ELSE DigitsValue(Tail(s), 10 * acc + DigitVal(Head(s)))

\* int(str): surrounding whitespace is stripped, one optional sign, then
\* decimal digits in which single underscores may separate digits; anything
\* else raises ValueError
PyInt(s) ==
    LET t == Strip(s)
        signed == t # <<>> /\ Head(t) \in {"+", "-"}
        body == IF signed THEN Tail(t) ELSE t
        wellFormed ==
            /\ body # <<>>
            /\ \A i \in 1..Len(body) : body[i] \in Digits \cup {"_"}
            /\ body[1] \in Digits
            /\ body[Len(body)] \in Digits
            /\ \A i \in 1..(Len(body) - 1) : ~(body[i] = "_" /\ body[i + 1] = "_")
        magnitude == DigitsValue(body, 0)
    IN  IF ~wellFormed THEN [exc |-> "ValueError", val |-> 0]
        ELSE [exc |-> "none",
              val |-> IF signed /\ Head(t) = "-" THEN 0 - magnitude ELSE magnitude]

----------------------------------------------------------------------------
(* Clip selection *)

\* the value None of parse_clip_id, kept apart from every integer
None == [none |-> TRUE, id |-> 0]
Some(n) == [none |-> FALSE, id |-> n]

\* the try body of parse_clip_id: int(path.stem.split("_", 1)[1])
ParseBody(path) ==
    LET parts == SplitOnce(Stem(path))
    IN  IF Len(parts) < 2 THEN [exc |-> "IndexError", val |-> 0]
        ELSE PyInt(parts[2])

\* the exceptions parse_clip_id turns into None
ParseCaught == {"IndexError", "ValueError"}

\* parse_clip_id: [exc, id]; exc is "none" unless an exception escapes
parse_clip_id(path) ==
    LET r == ParseBody(path)
    IN  IF r.exc = "none" THEN [exc |-> "none", id |-> Some(r.val)]
        ELSE IF r.exc \in ParseCaught THEN [exc |-> "none", id |-> None]
        ELSE [exc |-> r.exc, id |-> None]

\* VOICE_DIR.glob("MYR_*.mp4"): the names the pattern matches
MYR == <<"M", "Y", "R", "_">>
MP4 == <<".", "m", "p", "4">>

GlobMatch(name) ==
    /\ Len(name) >= Len(MYR) + Len(MP4)
    /\ SubSeq(name, 1, Len(MYR)) = MYR
    /\ SubSeq(name, Len(name) - Len(MP4) + 1, Len(name)) = MP4

\* the test of the loop in select_targets that skips a file
Skips(clip_id, start) == clip_id.none \/ clip_id.id < start

\* the loop of select_targets: the (clip_id, path) pairs kept, in glob order
RECURSIVE Numbered(_, _)
Numbered(files, start) ==
    IF files = <<>> THEN <<>>
    ELSE LET mp4 == Head(files)
             clip_id == parse_clip_id(mp4).id
             rest == Numbered(Tail(files), start)
         IN  IF ~GlobMatch(mp4) \/ Skips(clip_id, start) THEN rest
             ELSE <<<<clip_id.id, mp4>>>> \o rest

\* insert item after every element whose key is <= its key (stable)
RECURSIVE InsertByKey(_, _)
InsertByKey(sorted, item) ==
    IF sorted = <<>> THEN <<item>>
    ELSE IF Head(sorted)[1] <= item[1]
         THEN <<Head(sorted)>> \o InsertByKey(Tail(sorted), item)
         ELSE <<item>> \o sorted

RECURSIVE StableSort(_)
StableSort(items) ==
    IF items = <<>> THEN <<>>
    ELSE InsertByKey(StableSort(SubSeq(items, 1, Len(items) - 1)),
                     items[Len(items)])

\* the list left in enumeration order
SortByIdMutant(numbered) == numbered

\* numbered.sort(key=lambda item: item[0])
SortById(numbered) == StableSort(numbered)

\* the slice s[:n + 1]
SliceToMutant(s, n) ==
    SubSeq(s, 1, IF n + 1 >= Len(s) THEN Len(s) ELSE n + 1)

\* the Python slice s[:n], n of either sign
SliceTo(s, n) ==
    LET stop == IF n >= 0 THEN n ELSE Len(s) + n
    IN  IF stop <= 0 THEN <<>>
        ELSE IF stop >= Len(s) THEN s
        ELSE SubSeq(s, 1, stop)

\* whether some parse_clip_id call of the loop lets an exception escape
SelectRaises(files) ==
    \E i \in 1..Len(files) :
        GlobMatch(files[i]) /\ parse_clip_id(files[i]).exc # "none"

\* select_targets(start_id, limit) over the enumeration order files
select_targets(files, start, n) ==
    LET numbered == SortById(Numbered(files, start))
        kept == SliceTo(numbered, n)
    IN  [i \in 1..Len(kept) |-> kept[i][2]]

----------------------------------------------------------------------------
(* Transcript extraction (stt_clova.py) *)

\* str.join over a list of texts
RECURSIVE Join(_, _)
Join(lines, sep) ==
    IF lines = <<>> THEN <<>>
    ELSE IF Len(lines) = 1 THEN lines[1]
    ELSE lines[1] \o <<sep>> \o Join(Tail(lines), sep)

\* a JSON value met under a key: absent, null, a number, a string or a list
Absent == [kind |-> "absent", str |-> <<>>, items |-> <<>>]
JNull == [kind |-> "null", str |-> <<>>, items |-> <<>>]
JNum == [kind |-> "num", str |-> <<>>, items |-> <<>>]
JStr(t) == [kind |-> "str", str |-> t, items |-> <<>>]
JList(l) == [kind |-> "list", str |-> <<>>, items |-> l]

\* Python truthiness of dict.get(key): None, "" and [] are false
Truthy(v) ==
    \/ v.kind = "num"
    \/ v.kind = "str" /\ v.str # <<>>
    \/ v.kind = "list" /\ v.items # <<>>

DirectKeys == <<"text", "textData", "result", "transcript">>

\* the loop over the direct keys: the first key, from position k on, whose
\* value is a string that is not blank; 0 when there is none
RECURSIVE FirstDirect(_, _)
FirstDirect(fields, k) ==
    IF k > Len(DirectKeys) THEN 0
    ELSE LET text == fields[DirectKeys[k]]
         IN  IF text.kind = "str" /\ Strip(text.str) # <<>> THEN k
             ELSE FirstDirect(fields, k + 1)

\* the list comprehension over segments: segment.get("text", "") of every
\* segment that is a dict with a true "text"
RECURSIVE SegmentLines(_)
SegmentLines(segments) ==
    IF segments = <<>> THEN <<>>
    ELSE LET segment == Head(segments)
             rest == SegmentLines(Tail(segments))
         IN  IF segment.dict /\ Truthy(segment.text)
             THEN <<segment.text>> \o rest
             ELSE rest

\* json.dumps of one value, as text
Render(v) ==
    CASE v.kind = "str" -> <<"\"">> \o v.str \o <<"\"">>
      [] v.kind = "num" -> <<"5">>
      [] v.kind = "null" -> <<"n", "u", "l", "l">>
      [] v.kind = "list" -> IF v.items = <<>> THEN <<"[", "]">>
                            ELSE <<"[", ".", ".", ".", "]">>
      [] OTHER -> <<>>

AllKeys == DirectKeys \o <<"segments">>

RECURSIVE DumpMembers(_, _)
DumpMembers(fields, k) ==
    IF k > Len(AllKeys) THEN <<>>
    ELSE LET v == fields[AllKeys[k]]
             rest == DumpMembers(fields, k + 1)
         IN  IF v.kind = "absent" THEN rest
             ELSE <<<<"\n", " ", " ", "\"", AllKeys[k], "\"", ":", " ">>
                        \o Render(v)>> \o rest

\* json.dumps(payload, ensure_ascii=False, indent=2) of a JSON object
Dump(fields) ==
    LET members == DumpMembers(fields, 1)
    IN  IF members = <<>> THEN <<"{", "}">>
        ELSE <<"{">> \o Join(members, ",") \o <<"\n", "}">>

Returned(t) == [exc |-> "none", ret |-> t]
Raised(e) == [exc |-> e, ret |-> <<>>]

\* extract_transcript(response)
extract_transcript(resp) ==
    IF ~resp.isJson THEN Returned(Strip(resp.body))
    ELSE IF resp.payload.kind # "object" THEN Raised("AttributeError")
    ELSE LET fields == resp.payload.fields
             k == FirstDirect(fields, 1)
             segments == fields["segments"]
             lines == IF segments.kind = "list"
                      THEN SegmentLines(segments.items) ELSE <<>>
         IN  IF k # 0 THEN Returned(Strip(fields[DirectKeys[k]].str))
             ELSE IF lines # <<>>
             THEN IF \E i \in 1..Len(lines) : lines[i].kind # "str"
                  THEN Raised("TypeError")
                  ELSE Returned(Strip(Join([i \in 1..Len(lines) |-> lines[i].str],
                                           "\n")))
             ELSE Returned(Dump(fields))

----------------------------------------------------------------------------
(* Responses the model draws from *)

Texts == {<<" ">>, <<" ", "a">>, <<"b">>}

DirectValues == {Absent, JNum} \cup {JStr(t) : t \in Texts}

SegmentValues ==
    {[dict |-> FALSE, text |-> Absent]}
        \cup {[dict |-> TRUE, text |-> v] : v \in DirectValues}

SegmentLists ==
    UNION {[1..n -> SegmentValues] : n \in 0..MaxSegments}

SegmentsValues == {Absent, JStr(<<"b">>)} \cup {JList(l) : l \in SegmentLists}

NoFields ==
    [text |-> Absent, textData |-> Absent, result |-> Absent,
     transcript |-> Absent, segments |-> Absent]

ObjectPayloads ==
    {[kind |-> "object", fields |-> f] :
        f \in [text : DirectValues, textData : DirectValues,
               result : DirectValues, transcript : DirectValues,
               segments : SegmentsValues]}

OtherPayloads ==
    {[kind |-> k, fields |-> NoFields] : k \in {"list", "str", "num", "null"}}

Responses ==
    {[ok |-> TRUE, isJson |-> TRUE, body |-> <<>>, payload |-> p] :
        p \in ObjectPayloads \cup OtherPayloads}
    \cup {[ok |-> TRUE, isJson |-> FALSE, body |-> b,
           payload |-> [kind |-> "null", fields |-> NoFields]] :
              b \in Texts \cup {<<>>}}

NoResponse ==
    [ok |-> TRUE, isJson |-> FALSE, body |-> <<>>,
     payload |-> [kind |-> "null", fields |-> NoFields]]

----------------------------------------------------------------------------
(* Directory contents the model draws from *)

Name(tok) == MYR \o tok \o MP4

SmallNames ==
    { Name(<<"9">>), Name(<<"1", "0">>), Name(<<"0", "1", "0">>),
      Name(<<"1", "1">>), Name(<<"b", "a", "d">>), Name(<<"9", "_", "x">>),
      Name(<<>>), MYR \o <<"7", ".", "w", "a", "v">> }

Plain17388 == Name(<<"1", "7", "3", "8", "8">>)
Plain17390 == Name(<<"1", "7", "3", "9", "0">>)
Plain17395 == Name(<<"1", "7", "3", "9", "5">>)
Suffixed17388 == Name(<<"1", "7", "3", "8", "8", "_", "y">>)
Suffixed17390 == Name(<<"1", "7", "3", "9", "0", "_", "x">>)
Suffixed17395 == Name(<<"1", "7", "3", "9", "5", "_", "z">>)
BadName == Name(<<"b", "a", "d">>)

ScenarioSuffixed == {Suffixed17390, Suffixed17388, BadName, Suffixed17395}
ScenarioPlain == {Plain17390, Plain17388, BadName, Plain17395}

Directories ==
    {d \in SUBSET SmallNames : Cardinality(d) <= MaxFiles}
        \cup {ScenarioSuffixed, ScenarioPlain}

\* every order in which the file system may enumerate a directory
RECURSIVE Orders(_)
Orders(d) ==
    IF d = {} THEN {<<>>}
    ELSE UNION {{<<x>> \o p : p \in Orders(d \ {x})} : x \in d}

StartIds == {0, 10, START_ID}
Limits == (0 - 1)..MaxLimit

----------------------------------------------------------------------------
(* Configuration (stt_clova.py load_config, stt_vosk.py MODEL_PATH) *)

\* clova_config.json as load_config meets it
GoodConfig ==
    [exists |-> TRUE, parses |-> TRUE, invoke_url |-> "set", secret |-> "set",
     request_options |-> "absent"]

ClovaConfigs ==
    { GoodConfig,
      [GoodConfig EXCEPT !.request_options = "dict"],
      [GoodConfig EXCEPT !.exists = FALSE],
      [GoodConfig EXCEPT !.parses = FALSE],
      [GoodConfig EXCEPT !.invoke_url = "absent"],
      [GoodConfig EXCEPT !.secret = "absent"],
      [GoodConfig EXCEPT !.invoke_url = "blank"],
      [GoodConfig EXCEPT !.secret = "blank"],
      [GoodConfig EXCEPT !.request_options = "list"] }

\* load_config: the exception that leaves it, "none" when it returns
load_config(cfg) ==
    IF ~cfg.exists THEN "SystemExit"
    ELSE IF ~cfg.parses THEN "JSONDecodeError"
    ELSE IF cfg.invoke_url = "absent" \/ cfg.secret = "absent" THEN "SystemExit"
    ELSE IF cfg.invoke_url = "blank" \/ cfg.secret = "blank" THEN "SystemExit"
    ELSE IF cfg.request_options = "list" THEN "SystemExit"
    ELSE "none"

----------------------------------------------------------------------------
(* The per-clip functions, as the order of their steps *)

\* run_clova with the write ahead of the response.ok test
ClovaStepsMutant == <<"post", "extract", "write", "check_ok">>

\* run_clova: req_upload, the response.ok test, extract_transcript, write_text
ClovaSteps == <<"post", "check_ok", "extract", "write">>

\* extract_linear16_audio returning from the with block before read_bytes
GoogleStepsMutant ==
    <<"mktmp", "ffmpeg", "cleanup", "read_wav", "recognize", "write">>

\* run_google_speech: extract_linear16_audio (TemporaryDirectory, ffmpeg,
\* read_bytes inside the with block, scope exit), recognition, write_text
GoogleSteps ==
    <<"mktmp", "ffmpeg", "read_wav", "cleanup", "recognize", "write">>

\* run_vosk: TemporaryDirectory, convert_to_wav and transcribe inside the
\* with block, scope exit, write_text
VoskSteps == <<"mktmp", "ffmpeg", "decode", "cleanup", "write">>

\* run_whisper: one subprocess.run of the whisper CLI, which writes the file
WhisperSteps == <<"cli">>

Steps(b) ==
    CASE b = "clova" -> ClovaSteps
      [] b = "google" -> GoogleSteps
      [] b = "vosk" -> VoskSteps
      [] b = "whisper" -> WhisperSteps

\* the step the per-clip function is at
Op == IF pc = "clip" /\ step \in 1..Len(Steps(backend))
      THEN Steps(backend)[step] ELSE "none"

\* the wait ceiling of each backend call: requests.post(timeout=300),
\* operation.result(timeout=900), subprocess.run without a timeout
Ceiling(b) ==
    CASE b = "clova" -> [bounded |-> TRUE, seconds |-> HTTP_TIMEOUT]
      [] b = "google" -> [bounded |-> TRUE, seconds |-> OPERATION_TIMEOUT]
      [] OTHER -> [bounded |-> FALSE, seconds |-> 0]

Sentinel == <<"[No transcript returned]">>

\* run_google_speech: the stripped first alternatives that are not blank,
\* joined by newlines, the sentinel when nothing is left
RECURSIVE NonBlankStripped(_)
NonBlankStripped(ts) ==
    IF ts = <<>> THEN <<>>
    ELSE IF Strip(Head(ts)) # <<>>
         THEN <<Strip(Head(ts))>> \o NonBlankStripped(Tail(ts))
         ELSE NonBlankStripped(Tail(ts))

GoogleJoined(results) == Strip(Join(NonBlankStripped(results), "\n"))

GoogleTranscript(results) ==
    IF GoogleJoined(results) = <<>> THEN Sentinel ELSE GoogleJoined(results)

\* transcribe (stt_vosk.py): " ".join(filter(None, pieces)).strip()
RECURSIVE NonEmpty(_)
NonEmpty(ts) ==
    IF ts = <<>> THEN <<>>
    ELSE IF Head(ts) # <<>> THEN <<Head(ts)>> \o NonEmpty(Tail(ts))
         ELSE NonEmpty(Tail(ts))

VoskTranscript(pieces) == Strip(Join(NonEmpty(pieces), " "))

----------------------------------------------------------------------------
(* What the backends may answer *)

ObjectWith(f) ==
    [ok |-> TRUE, isJson |-> TRUE, body |-> <<>>,
     payload |-> [kind |-> "object", fields |-> f]]

RunResponses ==
    { ObjectWith([NoFields EXCEPT !.text = JStr(<<" ", "a">>)]),
      ObjectWith([NoFields EXCEPT
          !.segments = JList(<<[dict |-> TRUE, text |-> JStr(<<" ">>)]>>)]),
      [ok |-> TRUE, isJson |-> TRUE, body |-> <<>>,
       payload |-> [kind |-> "list", fields |-> NoFields]],
      [ok |-> FALSE, isJson |-> FALSE, body |-> <<"b">>,
       payload |-> [kind |-> "null", fields |-> NoFields]] }

\* response.results of the long running operation: first alternatives
GoogleResults == { <<>>, << <<" ">> >>, << <<"b">>, <<" ", "a">> >> }

\* the texts of rec.Result() at each accepted chunk, then of rec.FinalResult()
VoskPieces == { << <<>> >>, << <<"b">>, <<>>, <<"a">> >> }

\* what the whisper CLI writes to <stem>.txt
CliTexts == { <<>>, <<"b">> }

RunNames == {Plain17388, Plain17390, Plain17395, BadName}

RunDirectories == {d \in SUBSET RunNames : Cardinality(d) <= MaxFiles}

RunListings == UNION {Orders(d) : d \in RunDirectories}

\* select_targets(START_ID, TARGET_COUNT) as main calls it, for each order
\* in which the voice directory may be enumerated
MainSelection ==
    [files \in RunListings |-> select_targets(files, START_ID, TARGET_COUNT)]

Backends == {"clova", "google", "vosk", "whisper"}

----------------------------------------------------------------------------
(* The part of the state a specification leaves alone *)

SelectIdle ==
    /\ listing = <<>>
    /\ start_id = START_ID
    /\ limit = TARGET_COUNT
    /\ targets = <<>>
    /\ selPc = "idle"

ExtractIdle ==
    /\ response = NoResponse
    /\ extracted = Returned(<<>>)
    /\ exPc = "idle"

RunIdle ==
    /\ backend = "none"
    /\ env = [voiceDir |-> TRUE, config |-> GoodConfig, modelPath |-> TRUE]
    /\ pc = "idle"
    /\ idx = 0
    /\ step = 0
    /\ outcome = "running"
    /\ cause = "none"
    /\ attempted = <<>>
    /\ written = <<>>
    /\ transcript = <<>>
    /\ tmp = "none"
    /\ held = "nothing"
    /\ staleRead = FALSE
    /\ inFlight = FALSE
    /\ stalled = FALSE
    /\ calls = 0
    /\ ffmpegRuns = 0

----------------------------------------------------------------------------
(* Specification of select_targets as a function of its inputs *)

SelectInit ==
    /\ \E d \in Directories : listing \in Orders(d)
    /\ start_id \in StartIds
    /\ limit \in Limits
    /\ targets = <<>>
    /\ selPc = "call"
    /\ ExtractIdle
    /\ RunIdle

SelectTargets ==
    /\ selPc = "call"
    /\ IF SelectRaises(listing)
       THEN /\ selPc' = "raised"
            /\ targets' = <<>>
       ELSE /\ selPc' = "returned"
            /\ targets' = select_targets(listing, start_id, limit)
    /\ UNCHANGED <<listing, start_id, limit, exVars, runVars>>

SelectNext == SelectTargets

SelectSpec == SelectInit /\ [][SelectNext]_vars

----------------------------------------------------------------------------
(* Specification of extract_transcript as a function of its input *)

ExtractInit ==
    /\ response \in Responses
    /\ extracted = Returned(<<>>)
    /\ exPc = "call"
    /\ SelectIdle
    /\ RunIdle

ExtractTranscript ==
    /\ exPc = "call"
    /\ extracted' = extract_transcript(response)
    /\ exPc' = "done"
    /\ UNCHANGED <<response, selVars, runVars>>

ExtractNext == ExtractTranscript

ExtractSpec == ExtractInit /\ [][ExtractNext]_vars

----------------------------------------------------------------------------
(* One run of a script: main and its per-clip function *)

Init ==
    /\ backend \in Backends
    /\ \E v \in BOOLEAN :
       \E c \in (IF backend = "clova" THEN ClovaConfigs ELSE {GoodConfig}) :
       \E m \in (IF backend = "vosk" THEN BOOLEAN ELSE {TRUE}) :
           env = [voiceDir |-> v, config |-> c, modelPath |-> m]
    /\ \E d \in RunDirectories :
           /\ listing \in Orders(d)
           /\ env.voiceDir \/ d = {}
    /\ start_id = START_ID
    /\ limit = TARGET_COUNT
    /\ targets = <<>>
    /\ selPc = "call"
    /\ ExtractIdle
    /\ pc = "main"
    /\ idx = 0
    /\ step = 0
    /\ outcome = "running"
    /\ cause = "none"
    /\ attempted = <<>>
    /\ written = <<>>
    /\ transcript = <<>>
    /\ tmp = "none"
    /\ held = "nothing"
    /\ staleRead = FALSE
    /\ inFlight = FALSE
    /\ stalled = FALSE
    /\ calls = 0
    /\ ffmpegRuns = 0

\* an exception leaves the per-clip function and main: the with block, if
\* one is open, removes its directory on the way out, and the run ends
Fail(kind, why) ==
    /\ outcome' = kind
    /\ cause' = why
    /\ pc' = "done"
    /\ tmp' = IF tmp = "open" THEN "released" ELSE tmp
    /\ inFlight' = FALSE
    /\ UNCHANGED <<idx, step>>

\* the per-clip function goes on to its next step, or returns to the loop
Advance ==
    /\ IF step = Len(Steps(backend))
       THEN pc' = "loop" /\ idx' = idx + 1 /\ step' = 0
       ELSE pc' = "clip" /\ idx' = idx /\ step' = step + 1
    /\ UNCHANGED <<outcome, cause>>

\* main: if not VOICE_DIR.exists(): raise SystemExit
CheckVoiceDir ==
    /\ pc = "main"
    /\ IF ~env.voiceDir
       THEN Fail("SystemExit", "voice_dir")
       ELSE /\ pc' = IF backend \in {"clova", "vosk"} THEN "preflight" ELSE "select"
            /\ UNCHANGED <<idx, step, outcome, cause, tmp, inFlight>>
    /\ UNCHANGED <<selVars, exVars, backend, env, attempted, written,
                   transcript, held, staleRead, stalled, calls, ffmpegRuns>>

\* main: load_config(CONFIG_PATH) in stt_clova.py, the MODEL_PATH test in
\* stt_vosk.py
Preflight ==
    /\ pc = "preflight"
    /\ LET exc == IF backend = "clova" THEN load_config(env.config)
                  ELSE IF env.modelPath THEN "none" ELSE "SystemExit"
       IN  IF exc = "none"
           THEN /\ pc' = "select"
                /\ UNCHANGED <<idx, step, outcome, cause, tmp, inFlight>>
           ELSE IF exc = "SystemExit"
           THEN Fail("SystemExit", "config")
           ELSE Fail("exception", "config")
    /\ UNCHANGED <<selVars, exVars, backend, env, attempted, written,
                   transcript, held, staleRead, stalled, calls, ffmpegRuns>>

\* main: targets = select_targets(START_ID, TARGET_COUNT); an empty list
\* raises SystemExit
Select ==
    /\ pc = "select"
    /\ selPc' = "returned"
    /\ LET selection == MainSelection[listing]
       IN  /\ targets' = selection
           /\ IF selection = <<>>
              THEN Fail("SystemExit", "empty_selection")
              ELSE /\ pc' = "loop"
                   /\ idx' = 1
                   /\ UNCHANGED <<step, outcome, cause, tmp, inFlight>>
    /\ UNCHANGED <<listing, start_id, limit, exVars, backend, env, attempted,
                   written, transcript, held, staleRead, stalled, calls,
                   ffmpegRuns>>

\* main: the for loop takes the next clip and enters the per-clip function,
\* or ends
NextClip ==
    /\ pc = "loop"
    /\ IF idx > Len(targets)
       THEN /\ outcome' = "completed"
            /\ pc' = "done"
            /\ UNCHANGED <<step, attempted, tmp, held, transcript>>
       ELSE /\ attempted' = Append(attempted, targets[idx])
            /\ pc' = "clip"
            /\ step' = 1
            /\ tmp' = "none"
            /\ held' = "nothing"
            /\ transcript' = <<>>
            /\ UNCHANGED outcome
    /\ UNCHANGED <<selVars, exVars, backend, env, idx, cause, written,
                   staleRead, inFlight, stalled, calls, ffmpegRuns>>

\* with tempfile.TemporaryDirectory() as tmpdir: the WAV path inside it
MakeTmp ==
    /\ Op = "mktmp"
    /\ tmp' = "open"
    /\ held' = "wav_path"
    /\ Advance
    /\ UNCHANGED <<selVars, exVars, backend, env, attempted, written,
                   transcript, staleRead, inFlight, stalled, calls, ffmpegRuns>>

\* subprocess.run(ffmpeg, check=True): stt_google.py turns a missing
\* executable into SystemExit, stt_vosk.py catches nothing
Ffmpeg ==
    /\ Op = "ffmpeg"
    /\ ffmpegRuns' = ffmpegRuns + 1
    /\ \E r \in {"ok", "absent", "nonzero"} :
           CASE r = "ok" -> Advance /\ UNCHANGED <<tmp, inFlight>>
             [] r = "absent" ->
                   IF backend = "google"
                   THEN Fail("SystemExit", "ffmpeg_absent")
                   ELSE Fail("exception", "ffmpeg_absent")
             [] r = "nonzero" -> Fail("exception", "ffmpeg_failed")
    /\ UNCHANGED <<selVars, exVars, backend, env, attempted, written,
                   transcript, held, staleRead, stalled, calls>>

\* tmp_wav.read_bytes(): the file is there only while its directory is
ReadWav ==
    /\ Op = "read_wav"
    /\ IF tmp = "open"
       THEN /\ held' = "bytes"
            /\ Advance
            /\ UNCHANGED <<tmp, inFlight, staleRead>>
       ELSE /\ staleRead' = TRUE
            /\ Fail("exception", "stale_tmp")
            /\ UNCHANGED held
    /\ UNCHANGED <<selVars, exVars, backend, env, attempted, written,
                   transcript, stalled, calls, ffmpegRuns>>

\* the end of the with block: the temporary directory is removed
Cleanup ==
    /\ Op = "cleanup"
    /\ tmp' = "released"
    /\ Advance
    /\ UNCHANGED <<selVars, exVars, backend, env, attempted, written,
                   transcript, held, staleRead, inFlight, stalled, calls,
                   ffmpegRuns>>

\* transcribe(wav_path, model): wave.open reads the frames, the recognizer
\* gives its pieces; a file that is no WAV raises wave.Error
Decode ==
    /\ Op = "decode"
    /\ calls' = calls + 1
    /\ IF tmp = "open"
       THEN /\ \E k \in {"pieces", "invalid"} :
                   IF k = "invalid"
                   THEN /\ Fail("exception", "invalid_audio")
                        /\ UNCHANGED <<transcript, held>>
                   ELSE /\ \E r \in VoskPieces :
                               transcript' = VoskTranscript(r)
                        /\ held' = "text"
                        /\ Advance
                        /\ UNCHANGED <<tmp, inFlight>>
            /\ UNCHANGED staleRead
       ELSE /\ staleRead' = TRUE
            /\ Fail("exception", "stale_tmp")
            /\ UNCHANGED <<transcript, held>>
    /\ UNCHANGED <<selVars, exVars, backend, env, attempted, written,
                   stalled, ffmpegRuns>>

\* the backend call is issued: requests.post, long_running_recognize,
\* subprocess.run(whisper)
StartCall ==
    /\ Op \in {"post", "recognize", "cli"}
    /\ ~inFlight
    /\ inFlight' = TRUE
    /\ calls' = calls + 1
    /\ UNCHANGED <<selVars, exVars, backend, env, pc, idx, step, outcome,
                   cause, attempted, written, transcript, tmp, held,
                   staleRead, stalled, ffmpegRuns>>

\* the backend of the call in flight stops responding for good
BackendStalls ==
    /\ inFlight
    /\ ~stalled
    /\ stalled' = TRUE
    /\ UNCHANGED <<selVars, exVars, backend, env, pc, idx, step, outcome,
                   cause, attempted, written, transcript, tmp, held,
                   staleRead, inFlight, calls, ffmpegRuns>>

\* the wait ceiling of the call passes: requests raises Timeout, the
\* operation raises TimeoutError; a call without a ceiling keeps waiting
TimeoutExpires ==
    /\ inFlight
    /\ stalled
    /\ Ceiling(backend).bounded
    /\ stalled' = FALSE
    /\ Fail("exception", "timeout")
    /\ UNCHANGED <<selVars, exVars, backend, env, attempted, written,
                   transcript, held, staleRead, calls, ffmpegRuns>>

\* req_upload returns the response
ClovaResponds ==
    /\ Op = "post"
    /\ inFlight
    /\ ~stalled
    /\ response' \in RunResponses
    /\ inFlight' = FALSE
    /\ Advance
    /\ UNCHANGED <<selVars, extracted, exPc, backend, env, attempted, written,
                   transcript, tmp, held, staleRead, stalled, calls,
                   ffmpegRuns>>

\* run_clova: if not response.ok: raise SystemExit
CheckOk ==
    /\ Op = "check_ok"
    /\ IF ~response.ok
       THEN Fail("SystemExit", "http_status")
       ELSE Advance /\ UNCHANGED <<tmp, inFlight>>
    /\ UNCHANGED <<selVars, exVars, backend, env, attempted, written,
                   transcript, held, staleRead, stalled, calls, ffmpegRuns>>

\* run_clova: transcript = extract_transcript(response)
Extract ==
    /\ Op = "extract"
    /\ LET r == extract_transcript(response)
       IN  IF r.exc # "none"
           THEN Fail("exception", "extract") /\ UNCHANGED transcript
           ELSE /\ transcript' = r.ret
                /\ Advance
                /\ UNCHANGED <<tmp, inFlight>>
    /\ UNCHANGED <<selVars, exVars, backend, env, attempted, written,
                   held, staleRead, stalled, calls, ffmpegRuns>>

\* operation.result returns: the transcript is built from response.results,
\* with the sentinel for an empty one; or the operation reports an error
GoogleResponds ==
    /\ Op = "recognize"
    /\ inFlight
    /\ ~stalled
    /\ \E k \in {"results", "error"} :
           IF k = "error"
           THEN Fail("exception", "backend_error") /\ UNCHANGED transcript
           ELSE /\ \E r \in GoogleResults : transcript' = GoogleTranscript(r)
                /\ inFlight' = FALSE
                /\ Advance
                /\ UNCHANGED tmp
    /\ UNCHANGED <<selVars, exVars, backend, env, attempted, written,
                   held, staleRead, stalled, calls, ffmpegRuns>>

\* output_file.write_text(transcript)
Write ==
    /\ Op = "write"
    /\ written' = Append(written, [clip |-> targets[idx], text |-> transcript,
                                   by |-> "script"])
    /\ Advance
    /\ UNCHANGED <<selVars, exVars, backend, env, attempted, transcript, tmp,
                   held, staleRead, inFlight, stalled, calls, ffmpegRuns>>

\* subprocess.run(whisper, check=True) ends: the CLI has written
\* <stem>.txt, or it exited non-zero, or the executable was not found
WhisperResponds ==
    /\ Op = "cli"
    /\ inFlight
    /\ ~stalled
    /\ \E k \in {"done", "absent", "nonzero"} :
           CASE k = "absent" ->
                   Fail("exception", "cli_absent") /\ UNCHANGED written
             [] k = "nonzero" ->
                   Fail("exception", "cli_failed") /\ UNCHANGED written
             [] OTHER ->
                   /\ \E r \in CliTexts :
                          written' = Append(written,
                                            [clip |-> targets[idx], text |-> r,
                                             by |-> "cli"])
                   /\ inFlight' = FALSE
                   /\ Advance
                   /\ UNCHANGED tmp
    /\ UNCHANGED <<selVars, exVars, backend, env, attempted, transcript,
                   held, staleRead, stalled, calls, ffmpegRuns>>

Next ==
    \/ CheckVoiceDir
    \/ Preflight
    \/ Select
    \/ NextClip
    \/ MakeTmp
    \/ Ffmpeg
    \/ ReadWav
    \/ Cleanup
    \/ Decode
    \/ StartCall
    \/ BackendStalls
    \/ TimeoutExpires
    \/ ClovaResponds
    \/ CheckOk
    \/ Extract
    \/ GoogleResponds
    \/ Write
    \/ WhisperResponds

Spec == Init /\ [][Next]_vars

\* the interpreter keeps running the script, and a backend that has not
\* stalled answers
FairSpec == Spec /\ WF_vars(Next)

----------------------------------------------------------------------------
(* Properties of select_targets *)

Range(s) == {s[i] : i \in 1..Len(s)}

IdOf(path) == parse_clip_id(path).id.id

\* the files of the directory that the pattern matches, whose ID parses and
\* is at least start_id
Qualifying ==
    {f \in Range(listing) :
        GlobMatch(f) /\ ~parse_clip_id(f).id.none /\ IdOf(f) >= start_id}

Min(a, b) == IF a <= b THEN a ELSE b

\* C1 (as amended): the parsed IDs never decrease along the returned list,
\* whatever the enumeration order and the file name strings, and they
\* strictly increase whenever no two qualifying files parse to the same ID
C1_OrderedById ==
    selPc = "returned" =>
        /\ \A i, j \in 1..Len(targets) :
               i < j => IdOf(targets[i]) <= IdOf(targets[j])
        /\ (\A f, g \in Qualifying : f # g => IdOf(f) # IdOf(g)) =>
               \A i, j \in 1..Len(targets) :
                   i < j => IdOf(targets[i]) < IdOf(targets[j])

\* C1 (as stated): the parsed IDs strictly increase along the returned
\* list, so no two returned paths have the same parsed ID
C1_StrictlyIncreasing ==
    selPc = "returned" =>
        \A i, j \in 1..Len(targets) :
            i < j => IdOf(targets[i]) < IdOf(targets[j])

\* MYR_10 is enumerated before MYR_9 and MYR_9 is returned first
C1_Witness ==
    /\ selPc = "returned"
    /\ Len(listing) >= 2
    /\ listing[1] = Name(<<"1", "0">>)
    /\ listing[2] = Name(<<"9">>)
    /\ Len(targets) >= 2
    /\ targets[1] = Name(<<"9">>)
    /\ targets[2] = Name(<<"1", "0">>)

\* C2: for limit >= 0 the result holds no clip below start_id, has exactly
\* min(limit, number of qualifying files) entries, and consists of the
\* qualifying files with the smallest IDs, each once
C2_FilterAndCap ==
    (selPc = "returned" /\ limit >= 0) =>
        /\ \A i \in 1..Len(targets) : IdOf(targets[i]) >= start_id
        /\ Len(targets) = Min(limit, Cardinality(Qualifying))
        /\ Range(targets) \subseteq Qualifying
        /\ \A i, j \in 1..Len(targets) : i # j => targets[i] # targets[j]
        /\ \A f \in Qualifying \ Range(targets) :
               \A i \in 1..Len(targets) : IdOf(targets[i]) <= IdOf(f)

\* the limit truncates the result and a clip below start_id is left out
C2_Witness ==
    /\ selPc = "returned"
    /\ limit = 1
    /\ start_id = 10
    /\ Range(listing) = {Name(<<"9">>), Name(<<"1", "0">>), Name(<<"1", "1">>)}
    /\ targets = <<Name(<<"1", "0">>)>>

\* C3 (as amended): a name MYR_<integer>.mp4 is selected under its integer,
\* while a name whose text after the first underscore is not an integer,
\* MYR_<integer>_<suffix>.mp4 included, is left out and nothing is raised;
\* the scenario directory without suffixes gives [MYR_17388, MYR_17390] and
\* the one with suffixes gives the empty list
C3_ScenarioPlain ==
    /\ selPc # "raised"
    /\ selPc = "returned" =>
        /\ \A f \in Range(listing) :
               (GlobMatch(f) /\ PyInt(SubSeq(Stem(f), 5, Len(Stem(f)))).exc # "none")
                   => f \notin Range(targets)
        /\ (Range(listing) = ScenarioPlain /\ start_id = START_ID /\ limit = 2)
               => targets = <<Plain17388, Plain17390>>
        /\ (Range(listing) = ScenarioSuffixed /\ start_id = START_ID /\ limit = 2)
               => targets = <<>>

\* C3 (as stated): the scenario directory with suffixed names gives
\* [MYR_17388_y.mp4, MYR_17390_x.mp4]
C3_ScenarioSuffixed ==
    (selPc # "call" /\ Range(listing) = ScenarioSuffixed
        /\ start_id = START_ID /\ limit = 2)
        => (selPc = "returned" /\ targets = <<Suffixed17388, Suffixed17390>>)

\* the scenario without suffixes, enumerated out of order
C3_Witness ==
    /\ selPc = "returned"
    /\ listing = <<Plain17390, Plain17388, BadName, Plain17395>>
    /\ start_id = START_ID
    /\ limit = 2
    /\ targets = <<Plain17388, Plain17390>>

----------------------------------------------------------------------------
(* Properties of extract_transcript *)

HasDirect(resp) ==
    /\ resp.isJson
    /\ resp.payload.kind = "object"
    /\ FirstDirect(resp.payload.fields, 1) # 0

\* the segments of the payload that are dicts with a "text" that is not empty
TextSegments(resp) ==
    IF resp.isJson /\ resp.payload.kind = "object"
          /\ resp.payload.fields["segments"].kind = "list"
    THEN SegmentLines(resp.payload.fields["segments"].items)
    ELSE <<>>

HasSegments(resp) ==
    /\ resp.isJson
    /\ resp.payload.kind = "object"
    /\ resp.payload.fields["segments"].kind = "list"
    /\ resp.payload.fields["segments"].items # <<>>

\* C5 (as stated): extract_transcript returns a string for every payload
\* and never raises; with a direct text field it returns that field's
\* trimmed value (highest priority key first) whether or not segments are
\* present; with segments only it returns their texts joined by newlines
\* (and trimmed); a JSON object with neither gives a non-empty dump
C5_FallbackChainNeverFails ==
    exPc = "done" =>
        /\ extracted.exc = "none"
        /\ HasDirect(response) =>
               extracted.ret =
                   Strip(response.payload.fields[
                       DirectKeys[FirstDirect(response.payload.fields, 1)]].str)
        /\ (~HasDirect(response) /\ TextSegments(response) # <<>>
               /\ \A i \in 1..Len(TextSegments(response)) :
                      TextSegments(response)[i].kind = "str") =>
               extracted.ret =
                   Strip(Join([i \in 1..Len(TextSegments(response)) |->
                                  TextSegments(response)[i].str], "\n"))
        /\ (response.isJson /\ response.payload.kind = "object"
               /\ ~HasDirect(response) /\ TextSegments(response) = <<>>) =>
               extracted.ret # <<>>

\* a payload with a direct field under a later key and a segments list
C5_Witness ==
    /\ exPc = "done"
    /\ HasSegments(response)
    /\ response.payload.fields["text"].kind = "num"
    /\ response.payload.fields["textData"] = JStr(<<" ", "a">>)
    /\ response.payload.fields["result"] = JStr(<<"b">>)
    /\ extracted = Returned(<<"a">>)

----------------------------------------------------------------------------
(* Properties of a run *)

Failed == outcome \in {"SystemExit", "exception"}

PreflightCauses == {"voice_dir", "config", "empty_selection"}

\* the fatal conditions a diagnostic is promised for
ListedFatal ==
    PreflightCauses \cup {"ffmpeg_absent", "ffmpeg_failed", "cli_failed",
                          "http_status"}

IsPrefix(s, t) ==
    /\ Len(s) <= Len(t)
    /\ \A i \in 1..Len(s) : s[i] = t[i]

WrittenClips == [i \in 1..Len(written) |-> written[i].clip]

\* C4 (as stated): no output file a run writes is empty or only whitespace:
\* a recognition without text is written as the sentinel. Stated for the
\* files the scripts write themselves (Clova, Google, Vosk); the file of the
\* Whisper run is written by the CLI
C4_NoBlankOutput ==
    \A i \in 1..Len(written) :
        written[i].by = "script" => Strip(written[i].text) # <<>>

\* C6: the clips written are a prefix of the selection, clips are entered
\* one at a time in selection order, the clip that fails is not written
C6_PrefixState ==
    /\ IsPrefix(WrittenClips, targets)
    /\ IsPrefix(attempted, targets)
    /\ Len(written) <= Len(attempted)
    /\ Len(attempted) <= Len(written) + 1
    /\ (Failed /\ cause \notin PreflightCauses) =>
           /\ attempted # <<>>
           /\ Len(written) = Len(attempted) - 1

\* C6: a batch run takes the selected clips one at a time in selection
\* order and stops at the first clip that fails: the clips written are a
\* prefix of the selection, the failing clip is not written, and once a clip
\* has failed no further clip is entered or written
C6_FailStop ==
    /\ []C6_PrefixState
    /\ [][Failed => (Failed' /\ UNCHANGED <<attempted, written>>)]_vars

\* the second of three clips failed after the first was written
C6_Witness ==
    /\ Failed
    /\ cause \notin PreflightCauses
    /\ Len(targets) = 3
    /\ Len(attempted) = 2
    /\ Len(written) = 1

\* C7 (as stated): a run that ends on a missing voice directory, a missing
\* or invalid configuration or an empty selection ends by SystemExit, with
\* no clip normalized, no backend call made and no output file written
C7_PreflightAbortsBySystemExit ==
    (pc = "done" /\ cause \in PreflightCauses) =>
        /\ outcome = "SystemExit"
        /\ attempted = <<>>
        /\ written = <<>>
        /\ calls = 0
        /\ ffmpegRuns = 0

\* C8 (as stated): every backend call is bounded in waiting, so every run
\* eventually ends, completed or aborted
C8_EveryRunEnds == <>(outcome # "running")

\* C9 (as stated): every listed fatal condition ends the run through
\* SystemExit, and no run ends by an exception other than SystemExit
C9_FatalEndsBySystemExit ==
    /\ cause \in ListedFatal => outcome = "SystemExit"
    /\ outcome # "exception"

\* C10: the temporary WAV is read only while its directory exists, and what
\* the function holds once the directory is removed is owned data (the
\* bytes for Google, the text for Vosk), never the path
C10_ConsumedInsideScope ==
    /\ ~staleRead
    /\ Op \in {"read_wav", "decode"} => tmp = "open"
    /\ (outcome = "running" /\ tmp = "released") => held \in {"bytes", "text"}
    /\ Op = "recognize" => held = "bytes"
    /\ (Op = "write" /\ backend = "vosk") => held = "text"

\* the Google run holds the bytes and its temporary directory is gone
C10_Witness ==
    /\ backend = "google"
    /\ Op = "recognize"
    /\ inFlight
    /\ held = "bytes"
    /\ tmp = "released"

====
